---- MODULE Spec2Model ----
(***************************************************************************)
(* Model of PatchPilot's phased rollout core: the PatchOrchestrator        *)
(* methods of backend/src/orchestrator.py (start_execution,                *)
(* execute_canary_batch, check_batch_health, rollback_batch), the Lambda   *)
(* handlers of backend/src/lambda_handler.py that wrap them, the plan      *)
(* pipeline of backend/src/agent.py (process_webhook) and the ticket       *)
(* update of backend/src/ticket_manager.py (update_execution_status).      *)
(*                                                                         *)
(* One action is one whole handler invocation.  The collaborators (SSM,    *)
(* DynamoDB, Step Functions, Bedrock, SuperOps) are modelled by what the   *)
(* code asks of them: send_command either returns a command id or raises,  *)
(* describe_instance_information returns an instance with a PingStatus,    *)
(* an empty list, or raises, put_item replaces the item with the same key  *)
(* or raises, start_execution returns a new execution or raises,           *)
(* invoke_model returns a text or raises, update_ticket updates a known    *)
(* ticket or raises.                                                       *)
(***************************************************************************)
EXTENDS Integers, Sequences, FiniteSets, TLC

\* ---------------------------------------------------------------- bounds
NumDevices == 2
MaxLen == 2
NumStages == 2
MaxOps == 2
NumPlans == 1
NumTickets == 2
MaxFleet == 21

Devices == 1..NumDevices
\* batch_id of stage i is i; stage 0 is the canary
BatchIds == 0..(NumStages - 1)
\* the device_ids list of an event: any order, duplicates allowed
DeviceLists == UNION {[1..n -> Devices] : n \in 0..MaxLen}
\* health_threshold_percent values of an event
Thresholds == {0, 50, 100}
\* what describe_instance_information can do for one device
ProbeOutcomes == {"Online", "ConnectionLost", "NotFound", "Error"}

VARIABLES
    orchestrator,   \* lambda_handler.orchestrator global: "None" or "ready"
    table,          \* items of the DynamoDB table, keyed by (pk, sk)
    installed,      \* installed[d]: patch groups AWS-RunPatchBaseline installed on d
    verdict,        \* verdict[b]: what the last health check of stage b returned
    rollbacks,      \* rollbacks[b]: completed rollback_batch calls for stage b
    now,            \* logical clock, one tick per handler invocation
    last,           \* the last handler invocation: its event and what it returned
    executions,     \* the Step Functions executions of the state machine
    plans,          \* items of the DynamoDB plans table, keyed by plan_id
    tickets         \* MockSuperOpsClient.mock_tickets: ticket_id -> ticket

vars == <<orchestrator, table, installed, verdict, rollbacks, now, last,
          executions, plans, tickets>>

NoResult == [kind |-> "none"]
\* env is what the collaborator did for each device of the call (send_command
\* accepted or not, or the probe outcome), put_ok whether put_item succeeded
NoCall == [op |-> "none", batch_id |-> 0, device_ids |-> <<>>, env |-> <<>>,
           put_ok |-> TRUE, raised |-> FALSE,
           sent |-> <<>>, probed |-> <<>>, result |-> NoResult]

\* ------------------------------------------------------------- DynamoDB
\* table.put_item(Item=...): the item replaces the one with the same key
put_item(t, item) ==
    {i \in t : ~(i.pk = item.pk /\ i.sk = item.sk)} \cup {item}

ItemsOf(t, pk, sk) == {i \in t : i.pk = pk /\ i.sk = sk}

\* --------------------------------------------------------------- helpers
\* Python dict assignment d[k] = v
DictSet(d, k, v) == [x \in (DOMAIN d) \cup {k} |-> IF x = k THEN v ELSE d[x]]

EmptyDict == [x \in {} |-> 0]

Range(s) == {s[i] : i \in DOMAIN s}

\* ------------------------------------------------------------------ SSM
\* ssm.send_command(InstanceIds=[d], DocumentName="AWS-RunPatchBaseline",
\*   Parameters={"Operation": [op], "PatchGroups": [group]}) once accepted:
\* Install installs the patch group on the instance, Scan only reports
\* compliance and changes nothing on the instance.
send_command_effect(inst, d, op, group) ==
    IF op = "Install" THEN [inst EXCEPT ![d] = @ \cup {group}] ELSE inst

Command(d, op, group) == [InstanceId |-> d, Operation |-> op, PatchGroup |-> group]

\* ------------------------------------------------- execute_canary_batch
\* the per-device loop: accept[i] says whether send_command returned a
\* command id for the i-th device (TRUE) or raised (FALSE)
\* mutant: the except branch records the device but forgets to count it
ExecuteDeviceUncounted(batch_id, d, i, ok, acc) ==
    IF ok
    THEN [acc EXCEPT
            !.device_results = DictSet(@, d, [status |-> "executing", command_id |-> i]),
            !.successful = @ + 1,
            !.sent = Append(@, Command(d, "Install", batch_id)),
            !.inst = send_command_effect(@, d, "Install", batch_id)]
    ELSE [acc EXCEPT
            !.device_results = DictSet(@, d, [status |-> "failed", command_id |-> 0]),
            !.sent = Append(@, Command(d, "Install", batch_id))]

\* one iteration of the loop body: the try block and its except branch
ExecuteDevice(batch_id, d, i, ok, acc) ==
    IF ok
    THEN [acc EXCEPT
            !.device_results = DictSet(@, d, [status |-> "executing", command_id |-> i]),
            !.successful = @ + 1,
            !.sent = Append(@, Command(d, "Install", batch_id)),
            !.inst = send_command_effect(@, d, "Install", batch_id)]
    ELSE [acc EXCEPT
            !.device_results = DictSet(@, d, [status |-> "failed", command_id |-> 0]),
            !.failed = @ + 1,
            !.sent = Append(@, Command(d, "Install", batch_id))]

\* mutant: the first failing dispatch ends the loop
RECURSIVE ExecuteLoopAbort(_, _, _, _, _)
ExecuteLoopAbort(batch_id, device_ids, accept, i, acc) ==
    IF i > Len(device_ids) THEN acc
    ELSE IF ~accept[i]
         THEN ExecuteDevice(batch_id, device_ids[i], i, accept[i], acc)
         ELSE ExecuteLoopAbort(batch_id, device_ids, accept, i + 1,
                 ExecuteDevice(batch_id, device_ids[i], i, accept[i], acc))

RECURSIVE ExecuteLoop(_, _, _, _, _)
ExecuteLoop(batch_id, device_ids, accept, i, acc) ==
    IF i > Len(device_ids) THEN acc
    ELSE ExecuteLoop(batch_id, device_ids, accept, i + 1,
            ExecuteDevice(batch_id, device_ids[i], i, accept[i], acc))

ExecuteResults(batch_id, device_ids, accept) ==
    ExecuteLoop(batch_id, device_ids, accept, 1,
        [successful |-> 0, failed |-> 0, device_results |-> EmptyDict,
         sent |-> <<>>, inst |-> installed])

\* the batch execution record handed to put_item
ExecutionItem(batch_id, device_ids, r) ==
    [pk |-> <<"BATCH", batch_id>>, sk |-> "EXECUTION",
     device_count |-> Len(device_ids),
     successful |-> r.successful, failed |-> r.failed,
     at |-> now, device_results |-> r.device_results]

\* mutant: a failing put_item is logged and the results are returned anyway
execute_canary_batchUnstored(batch_id, device_ids, patch_ids, accept, putOk) ==
    LET r == ExecuteResults(batch_id, device_ids, accept)
        item == ExecutionItem(batch_id, device_ids, r)
        results == [kind |-> "execute", batch_id |-> batch_id,
                    device_count |-> Len(device_ids),
                    successful |-> r.successful, failed |-> r.failed,
                    device_results |-> r.device_results]
    IN /\ installed' = r.inst
       /\ table' = IF putOk THEN put_item(table, item) ELSE table
       /\ last' = [op |-> "execute", batch_id |-> batch_id, device_ids |-> device_ids,
                   patch_ids |-> patch_ids,
                   env |-> accept, put_ok |-> putOk, raised |-> FALSE,
                   sent |-> r.sent, probed |-> <<>>,
                   result |-> results]
       /\ UNCHANGED <<verdict, rollbacks>>

\* PatchOrchestrator.execute_canary_batch; putOk = FALSE: put_item raises.
\* patch_ids is an argument the body never reads.
execute_canary_batch(batch_id, device_ids, patch_ids, accept, putOk) ==
    LET r == ExecuteResults(batch_id, device_ids, accept)
        item == ExecutionItem(batch_id, device_ids, r)
        results == [kind |-> "execute", batch_id |-> batch_id,
                    device_count |-> Len(device_ids),
                    successful |-> r.successful, failed |-> r.failed,
                    device_results |-> r.device_results]
    IN /\ installed' = r.inst
       /\ table' = IF putOk THEN put_item(table, item) ELSE table
       /\ last' = [op |-> "execute", batch_id |-> batch_id, device_ids |-> device_ids,
                   patch_ids |-> patch_ids,
                   env |-> accept, put_ok |-> putOk, raised |-> ~putOk,
                   sent |-> r.sent, probed |-> <<>>,
                   result |-> IF putOk THEN results ELSE NoResult]
       /\ UNCHANGED <<verdict, rollbacks>>

\* ------------------------------------------------------- rollback_batch
\* one iteration of the loop body: the try block and its except branch
RollbackDevice(batch_id, d, i, ok, acc) ==
    IF ok
    THEN [acc EXCEPT
            !.device_results = DictSet(@, d, [status |-> "rolling_back", command_id |-> i]),
            !.successful = @ + 1,
            !.sent = Append(@, Command(d, "Scan", batch_id)),
            !.inst = send_command_effect(@, d, "Scan", batch_id)]
    ELSE [acc EXCEPT
            !.device_results = DictSet(@, d, [status |-> "rollback_failed", command_id |-> 0]),
            !.failed = @ + 1,
            !.sent = Append(@, Command(d, "Scan", batch_id))]

\* mutant: the first failing rollback command ends the loop
RECURSIVE RollbackLoopAbort(_, _, _, _, _)
RollbackLoopAbort(batch_id, device_ids, accept, i, acc) ==
    IF i > Len(device_ids) THEN acc
    ELSE IF ~accept[i]
         THEN RollbackDevice(batch_id, device_ids[i], i, accept[i], acc)
         ELSE RollbackLoopAbort(batch_id, device_ids, accept, i + 1,
                 RollbackDevice(batch_id, device_ids[i], i, accept[i], acc))

RECURSIVE RollbackLoop(_, _, _, _, _)
RollbackLoop(batch_id, device_ids, accept, i, acc) ==
    IF i > Len(device_ids) THEN acc
    ELSE RollbackLoop(batch_id, device_ids, accept, i + 1,
            RollbackDevice(batch_id, device_ids[i], i, accept[i], acc))

RollbackResults(batch_id, device_ids, accept) ==
    RollbackLoop(batch_id, device_ids, accept, 1,
        [successful |-> 0, failed |-> 0, device_results |-> EmptyDict,
         sent |-> <<>>, inst |-> installed])

\* mutant: the rollback record is stored under the execution record's key
RollbackItemAsExecution(batch_id, device_ids, r) ==
    [pk |-> <<"BATCH", batch_id>>, sk |-> "EXECUTION",
     device_count |-> Len(device_ids),
     successful |-> r.successful, failed |-> r.failed,
     at |-> now, device_results |-> r.device_results]

\* the rollback record handed to put_item
RollbackItem(batch_id, device_ids, r) ==
    [pk |-> <<"BATCH", batch_id>>, sk |-> "ROLLBACK",
     device_count |-> Len(device_ids),
     successful |-> r.successful, failed |-> r.failed,
     at |-> now, device_results |-> r.device_results]

\* PatchOrchestrator.rollback_batch; putOk = FALSE: put_item raises
rollback_batch(batch_id, device_ids, accept, putOk) ==
    LET r == RollbackResults(batch_id, device_ids, accept)
        item == RollbackItem(batch_id, device_ids, r)
        rollback_results == [kind |-> "rollback", batch_id |-> batch_id,
                    device_count |-> Len(device_ids),
                    successful |-> r.successful, failed |-> r.failed,
                    device_results |-> r.device_results]
    IN /\ installed' = r.inst
       /\ table' = IF putOk THEN put_item(table, item) ELSE table
       /\ rollbacks' = IF putOk THEN [rollbacks EXCEPT ![batch_id] = @ + 1] ELSE rollbacks
       /\ last' = [op |-> "rollback", batch_id |-> batch_id, device_ids |-> device_ids,
                   env |-> accept, put_ok |-> putOk, raised |-> ~putOk,
                   sent |-> r.sent, probed |-> <<>>,
                   result |-> IF putOk THEN rollback_results ELSE NoResult]
       /\ UNCHANGED verdict

\* --------------------------------------------------- check_batch_health
\* mutant: every returned instance counts as healthy
IsHealthyAnyStatus(ping_status) == TRUE

\* is_healthy = instance['PingStatus'] == 'Online', for a returned instance
IsHealthy(ping_status) == ping_status = "Online"

\* device_health[device_id]["status"] for one probe outcome
HealthStatus(outcome) ==
    IF outcome = "Error" THEN "error"
    ELSE IF outcome = "NotFound" THEN "unknown"
    ELSE IF IsHealthy(outcome) THEN "healthy" ELSE "unhealthy"

\* the per-device loop: probe[i] is what describe_instance_information did
\* for the i-th device
RECURSIVE HealthLoop(_, _, _, _)
HealthLoop(device_ids, probe, i, acc) ==
    IF i > Len(device_ids) THEN acc
    ELSE LET d == device_ids[i]
             counted == HealthStatus(probe[i]) = "healthy"
         IN HealthLoop(device_ids, probe, i + 1,
              [acc EXCEPT
                 !.device_health = DictSet(@, d, [status |-> HealthStatus(probe[i])]),
                 !.healthy = IF counted THEN @ + 1 ELSE @,
                 !.unhealthy = IF counted THEN @ ELSE @ + 1,
                 !.probed = Append(@, d)])

\* health_percent = (healthy / len(device_ids) * 100) if device_ids else 0,
\* kept as the exact fraction num / den.  For the list lengths and whole
\* thresholds of this model the float comparison of the code and the exact
\* one agree.
HealthPercent(healthy, device_ids) ==
    IF Len(device_ids) > 0
    THEN [num |-> healthy * 100, den |-> Len(device_ids)]
    ELSE [num |-> 0, den |-> 1]

\* mutant: the comparison with the threshold is strict
ProceedStrict(health_percent, health_threshold_percent) ==
    health_percent.num > health_threshold_percent * health_percent.den

\* health_results["proceed"] = health_percent >= health_threshold_percent
Proceed(health_percent, health_threshold_percent) ==
    health_percent.num >= health_threshold_percent * health_percent.den

\* mutant: the health results are stored as a record of the stage
check_batch_healthStored(batch_id, device_ids, probe, health_threshold_percent) ==
    LET r == HealthLoop(device_ids, probe, 1,
                [healthy |-> 0, unhealthy |-> 0, device_health |-> EmptyDict,
                 probed |-> <<>>])
        health_percent == HealthPercent(r.healthy, device_ids)
        health_results == [kind |-> "health", batch_id |-> batch_id,
                    device_count |-> Len(device_ids),
                    healthy |-> r.healthy, unhealthy |-> r.unhealthy,
                    device_health |-> r.device_health,
                    health_percent |-> health_percent,
                    threshold |-> health_threshold_percent,
                    proceed |-> Proceed(health_percent, health_threshold_percent)]
    IN /\ last' = [op |-> "health", batch_id |-> batch_id, device_ids |-> device_ids,
                   env |-> probe, put_ok |-> TRUE, raised |-> FALSE,
                   sent |-> <<>>, probed |-> r.probed,
                   result |-> health_results]
       /\ verdict' = [verdict EXCEPT ![batch_id] =
                        IF health_results.proceed THEN "proceed" ELSE "rollback"]
       /\ table' = put_item(table,
                     [pk |-> <<"BATCH", batch_id>>, sk |-> "HEALTH",
                      healthy |-> r.healthy, unhealthy |-> r.unhealthy,
                      at |-> now])
       /\ UNCHANGED <<installed, rollbacks>>

\* PatchOrchestrator.check_batch_health
check_batch_health(batch_id, device_ids, probe, health_threshold_percent) ==
    LET r == HealthLoop(device_ids, probe, 1,
                [healthy |-> 0, unhealthy |-> 0, device_health |-> EmptyDict,
                 probed |-> <<>>])
        health_percent == HealthPercent(r.healthy, device_ids)
        health_results == [kind |-> "health", batch_id |-> batch_id,
                    device_count |-> Len(device_ids),
                    healthy |-> r.healthy, unhealthy |-> r.unhealthy,
                    device_health |-> r.device_health,
                    health_percent |-> health_percent,
                    threshold |-> health_threshold_percent,
                    proceed |-> Proceed(health_percent, health_threshold_percent)]
    IN /\ last' = [op |-> "health", batch_id |-> batch_id, device_ids |-> device_ids,
                   env |-> probe, put_ok |-> TRUE, raised |-> FALSE,
                   sent |-> <<>>, probed |-> r.probed,
                   result |-> health_results]
       /\ verdict' = [verdict EXCEPT ![batch_id] =
                        IF health_results.proceed THEN "proceed" ELSE "rollback"]
       /\ UNCHANGED <<table, installed, rollbacks>>

\* ------------------------------------------------------ lambda_handler
\* get_orchestrator(): creates the orchestrator on first use; ctorOk = FALSE
\* means PatchOrchestrator() raised and the global stays None
get_orchestrator(ctorOk) ==
    IF orchestrator = "None" THEN (IF ctorOk THEN "ready" ELSE "None") ELSE orchestrator

\* a handler that raised before reaching the orchestrator method
HandlerRaises(op, batch_id, device_ids) ==
    /\ last' = [op |-> op, batch_id |-> batch_id, device_ids |-> device_ids,
                env |-> <<>>, put_ok |-> TRUE, raised |-> TRUE,
                sent |-> <<>>, probed |-> <<>>, result |-> NoResult]
    /\ UNCHANGED <<table, installed, verdict, rollbacks>>

\* execute_batch_handler uses the module global directly
execute_batch_handler(batch_id, device_ids, patch_ids, accept, putOk) ==
    /\ now < MaxOps
    /\ now' = now + 1
    /\ orchestrator' = orchestrator
    /\ UNCHANGED <<executions, plans, tickets>>
    /\ IF orchestrator = "None"
       THEN HandlerRaises("execute", batch_id, device_ids)
       ELSE execute_canary_batch(batch_id, device_ids, patch_ids, accept, putOk)

health_check_handler(batch_id, device_ids, probe, health_threshold_percent, ctorOk) ==
    /\ now < MaxOps
    /\ now' = now + 1
    /\ orchestrator' = get_orchestrator(ctorOk)
    /\ UNCHANGED <<executions, plans, tickets>>
    /\ IF get_orchestrator(ctorOk) = "None"
       THEN HandlerRaises("health", batch_id, device_ids)
       ELSE check_batch_health(batch_id, device_ids, probe, health_threshold_percent)

rollback_handler(batch_id, device_ids, accept, putOk, ctorOk) ==
    /\ now < MaxOps
    /\ now' = now + 1
    /\ orchestrator' = get_orchestrator(ctorOk)
    /\ UNCHANGED <<executions, plans, tickets>>
    /\ IF get_orchestrator(ctorOk) = "None"
       THEN HandlerRaises("rollback", batch_id, device_ids)
       ELSE rollback_batch(batch_id, device_ids, accept, putOk)

\* -------------------------------------------------------- specification
\* a fresh Lambda process: the module globals are None, the table is empty
Init ==
    /\ orchestrator = "None"
    /\ table = {}
    /\ installed = [d \in Devices |-> {}]
    /\ verdict = [b \in BatchIds |-> "none"]
    /\ rollbacks = [b \in BatchIds |-> 0]
    /\ now = 0
    /\ last = NoCall
    /\ executions = {}
    /\ plans = {}
    /\ tickets = EmptyDict

\* a constructed PatchOrchestrator over an empty table, as the fixture of
\* tests/test_orchestrator.py builds it
InitOrchestrator ==
    /\ orchestrator = "ready"
    /\ table = {}
    /\ installed = [d \in Devices |-> {}]
    /\ verdict = [b \in BatchIds |-> "none"]
    /\ rollbacks = [b \in BatchIds |-> 0]
    /\ now = 0
    /\ last = NoCall
    /\ executions = {}
    /\ plans = {}
    /\ tickets = EmptyDict

\* PatchOrchestrator() matters only while the global is still None
CtorChoices == IF orchestrator = "None" THEN BOOLEAN ELSE {TRUE}

\* an event without patch_ids: event.get('patch_ids', [])
ExecuteBatch ==
    \E b \in BatchIds, ids \in DeviceLists, putOk \in BOOLEAN :
        \E accept \in [DOMAIN ids -> BOOLEAN] :
            execute_batch_handler(b, ids, <<>>, accept, putOk)

\* the patch_ids lists of an event
PatchIdLists == {<<>>, <<"KB1">>, <<"KB1", "KB2">>}

\* an event with any patch_ids
ExecutePatches ==
    \E b \in BatchIds, ids \in DeviceLists, patch_ids \in PatchIdLists,
       putOk \in BOOLEAN :
        \E accept \in [DOMAIN ids -> BOOLEAN] :
            execute_batch_handler(b, ids, patch_ids, accept, putOk)

Rollback ==
    \E b \in BatchIds, ids \in DeviceLists, putOk \in BOOLEAN, ctorOk \in CtorChoices :
        \E accept \in [DOMAIN ids -> BOOLEAN] :
            rollback_handler(b, ids, accept, putOk, ctorOk)

HealthCheck ==
    \E b \in BatchIds, ids \in DeviceLists, thr \in Thresholds, ctorOk \in CtorChoices :
        \E probe \in [DOMAIN ids -> ProbeOutcomes] :
            health_check_handler(b, ids, probe, thr, ctorOk)

\* the Lambda handlers of a process, invoked in any order with any event
Next == ExecuteBatch \/ HealthCheck \/ Rollback

Spec == Init /\ [][Next]_vars

\* one call of one method on a newly constructed orchestrator, over all the
\* inputs of the call
FirstExecute == now = 0 /\ ExecuteBatch

FirstHealthCheck == now = 0 /\ HealthCheck

FirstRollback == now = 0 /\ Rollback

NextCall == FirstExecute \/ FirstHealthCheck \/ FirstRollback

SpecCall == InitOrchestrator /\ [][NextCall]_vars

\* execute_canary_batch and rollback_batch on one orchestrator
NextBatch == ExecuteBatch \/ Rollback

SpecBatch == InitOrchestrator /\ [][NextBatch]_vars

\* a health check after one execute_canary_batch call on one orchestrator
SecondHealthCheck == now = 1 /\ HealthCheck

NextGate == FirstExecute \/ SecondHealthCheck

SpecGate == InitOrchestrator /\ [][NextGate]_vars

\* execute_canary_batch called with any patch_ids on one orchestrator
SpecPatches == InitOrchestrator /\ [][ExecutePatches]_vars

\* ------------------------------------------------------ start_execution
\* plan_id and ticket_id values of an approval request
PlanIds == 1..NumPlans

TicketIds == 1..NumTickets

\* body.get('plan', {}) when the request carries no plan
EmptyPlan == [missing |-> TRUE]

\* the plans an approval request can carry: the sizes are whatever the
\* request holds
RequestPlans ==
    {EmptyPlan} \cup
    {[canary_size |-> c, batches |-> b] : c \in {-1, 1}, b \in {<<1>>, <<1, -1>>}}

\* plan["canary_size"], plan["batches"], ... raise KeyError on a plan without
\* these keys
HasPlanKeys(plan) == "canary_size" \in DOMAIN plan /\ "batches" \in DOMAIN plan

\* execution_input: the sizes of the plan are copied as they are
ExecutionInput(plan_id, plan, ticket_id) ==
    [plan_id |-> plan_id, ticket_id |-> ticket_id,
     canary_size |-> plan.canary_size, batches |-> plan.batches,
     timestamp |-> now]

\* name=f"patch-run-{plan_id}": the ARN of an execution is fixed by its name
ExecutionArn(plan_id) == <<"patch-run", plan_id>>

\* stepfunctions.start_execution: returns the ARN of a new RUNNING
\* execution, or raises; Step Functions refuses a name that is already used
\* with another input (ExecutionAlreadyExists)
StartAccepted(plan_id, sfnOk) ==
    sfnOk /\ \A e \in executions : e.execution_arn # ExecutionArn(plan_id)

NewExecution(plan_id, plan, ticket_id) ==
    [execution_arn |-> ExecutionArn(plan_id), status |-> "RUNNING",
     input |-> ExecutionInput(plan_id, plan, ticket_id)]

\* the execution record handed to put_item
ExecutionRecord(plan_id, ticket_id, execution_arn) ==
    [pk |-> <<"EXECUTION", execution_arn>>, sk |-> "METADATA",
     plan_id |-> plan_id, ticket_id |-> ticket_id,
     status |-> "running", at |-> now, execution_arn |-> execution_arn]

\* how PatchOrchestrator.start_execution ends: "key_error" building the
\* input, "sfn_error" starting the execution, "put_error" storing the
\* record, or "started"
StartOutcome(plan_id, plan, sfnOk, putOk) ==
    IF ~HasPlanKeys(plan) THEN "key_error"
    ELSE IF ~StartAccepted(plan_id, sfnOk) THEN "sfn_error"
    ELSE IF ~putOk THEN "put_error"
    ELSE "started"

\* PatchOrchestrator.start_execution: its effect on Step Functions and on
\* the table
start_execution(plan_id, plan, ticket_id, sfnOk, putOk) ==
    LET outcome == StartOutcome(plan_id, plan, sfnOk, putOk)
    IN /\ executions' = IF outcome \in {"put_error", "started"}
                        THEN executions \cup {NewExecution(plan_id, plan, ticket_id)}
                        ELSE executions
       /\ table' = IF outcome = "started"
                   THEN put_item(table,
                          ExecutionRecord(plan_id, ticket_id, ExecutionArn(plan_id)))
                   ELSE table

\* the response of plan_approval_handler
ApprovalResponse(plan_id, approved, outcome) ==
    IF ~approved
    THEN [statusCode |-> 200, status |-> "rejected", plan_id |-> plan_id,
          message |-> "Plan rejected"]
    ELSE IF outcome = "started"
    THEN [statusCode |-> 200, status |-> "approved", plan_id |-> plan_id,
          message |-> "Plan approved, execution started"]
    ELSE [statusCode |-> 500, status |-> "error", plan_id |-> plan_id,
          message |-> outcome]

\* mutant: the plan is started whatever the approved flag says
plan_approval_handlerUngated(plan_id, ticket_id, plan, approved, ctorOk, sfnOk, putOk) ==
    LET orch == get_orchestrator(ctorOk)
        outcome == IF orch = "None" THEN "no_orchestrator"
                   ELSE StartOutcome(plan_id, plan, sfnOk, putOk)
    IN /\ now < MaxOps
       /\ now' = now + 1
       /\ orchestrator' = orch
       /\ IF orch # "None"
          THEN start_execution(plan_id, plan, ticket_id, sfnOk, putOk)
          ELSE UNCHANGED <<executions, table>>
       /\ last' = [op |-> "approve", plan_id |-> plan_id, ticket_id |-> ticket_id,
                   plan |-> plan, approved |-> approved,
                   env |-> [sfn_ok |-> sfnOk, put_ok |-> putOk], raised |-> FALSE,
                   response |-> ApprovalResponse(plan_id, approved, outcome)]
       /\ UNCHANGED <<installed, verdict, rollbacks, plans, tickets>>

\* plan_approval_handler: an approved plan is started as it is
plan_approval_handler(plan_id, ticket_id, plan, approved, ctorOk, sfnOk, putOk) ==
    LET orch == IF approved THEN get_orchestrator(ctorOk) ELSE orchestrator
        outcome == IF orch = "None" THEN "no_orchestrator"
                   ELSE StartOutcome(plan_id, plan, sfnOk, putOk)
    IN /\ now < MaxOps
       /\ now' = now + 1
       /\ orchestrator' = orch
       /\ IF approved /\ orch # "None"
          THEN start_execution(plan_id, plan, ticket_id, sfnOk, putOk)
          ELSE UNCHANGED <<executions, table>>
       /\ last' = [op |-> "approve", plan_id |-> plan_id, ticket_id |-> ticket_id,
                   plan |-> plan, approved |-> approved,
                   env |-> [sfn_ok |-> sfnOk, put_ok |-> putOk], raised |-> FALSE,
                   response |-> ApprovalResponse(plan_id, approved, outcome)]
       /\ UNCHANGED <<installed, verdict, rollbacks, plans, tickets>>

\* the state machine ends an execution: Step Functions reports one of its
\* closed statuses from then on
ClosedStatuses == {"SUCCEEDED", "FAILED", "ABORTED"}

ExecutionStops ==
    \E e \in executions, st \in ClosedStatuses :
        /\ e.status = "RUNNING"
        /\ executions' = (executions \ {e}) \cup {[e EXCEPT !.status = st]}
        /\ UNCHANGED <<orchestrator, table, installed, verdict, rollbacks, now,
                       last, plans, tickets>>

PlanApproval ==
    \E plan_id \in PlanIds, ticket_id \in TicketIds, plan \in RequestPlans,
       approved \in BOOLEAN, ctorOk \in CtorChoices,
       sfnOk \in BOOLEAN, putOk \in BOOLEAN :
        plan_approval_handler(plan_id, ticket_id, plan, approved, ctorOk, sfnOk, putOk)

\* the approval handler, the state machine ending an execution, and the
\* batch handlers, on one orchestrator
NextRun == PlanApproval \/ ExecutionStops \/ ExecuteBatch \/ Rollback

SpecRun == InitOrchestrator /\ [][NextRun]_vars

\* --------------------------------------------------- approval endpoints
\* api.py approve_plan (POST /plan/approve): logs the approval and answers;
\* bodyOk = FALSE is a request without a JSON body, data.get raises
api_approve_plan(plan_id, ticket_id, bodyOk) ==
    /\ now < MaxOps
    /\ now' = now + 1
    /\ last' = [op |-> "api_approve", plan_id |-> plan_id, ticket_id |-> ticket_id,
                raised |-> FALSE,
                response |-> IF bodyOk
                             THEN [statusCode |-> 200, status |-> "approved",
                                   plan_id |-> plan_id,
                                   message |-> "Plan approved, execution started"]
                             ELSE [statusCode |-> 500, status |-> "error",
                                   plan_id |-> plan_id, message |-> "no_body"]]
    /\ UNCHANGED <<orchestrator, table, installed, verdict, rollbacks,
                   executions, plans, tickets>>

\* the status filters of GET /api/dashboard/runs
InProgressStatuses == {"in_progress", "pending"}

RecentStatuses == {"completed", "failed"}

\* run.get("status") in statuses, for an item of the scan
StatusIn(item, statuses) ==
    "status" \in DOMAIN item /\ item.status \in statuses

\* dashboard_handler, GET /api/dashboard/runs: scans the table and filters
\* the items by status; dbOk = FALSE: get_dynamodb() returns None.  The
\* recent list is cut to ten items, more than the table ever holds here.
dashboard_runs(dbOk) ==
    /\ now < MaxOps
    /\ now' = now + 1
    /\ last' = [op |-> "runs", raised |-> FALSE,
                response |-> IF dbOk
                             THEN [statusCode |-> 200,
                                   in_progress |-> {it \in table :
                                                      StatusIn(it, InProgressStatuses)},
                                   recent |-> {it \in table :
                                                 StatusIn(it, RecentStatuses)}]
                             ELSE [statusCode |-> 500, in_progress |-> {},
                                   recent |-> {}]]
    /\ UNCHANGED <<orchestrator, table, installed, verdict, rollbacks,
                   executions, plans, tickets>>

ApiApprovePlan ==
    \E plan_id \in PlanIds, ticket_id \in TicketIds, bodyOk \in BOOLEAN :
        api_approve_plan(plan_id, ticket_id, bodyOk)

DashboardRuns == \E dbOk \in BOOLEAN : dashboard_runs(dbOk)

\* the approval endpoints and the dashboard of a fresh process, and the
\* state machine ending an execution
NextApproval == PlanApproval \/ ApiApprovePlan \/ DashboardRuns \/ ExecutionStops

SpecApproval == Init /\ [][NextApproval]_vars

\* each handler that uses the orchestrator, as the first invocation of a
\* fresh process
FirstApproval == now = 0 /\ PlanApproval

NextFresh == FirstExecute \/ FirstHealthCheck \/ FirstRollback \/ FirstApproval

SpecFresh == Init /\ [][NextFresh]_vars

\* ---------------------------------------------------- MockSuperOpsClient
\* mock_devices: the client_id of dev-001 .. dev-004
mock_devices == <<"client-a", "client-a", "client-b", "client-c">>

\* client_id values of a webhook; "None" is a webhook without client_id
ClientIds == {"client-a", "client-b", "client-c", "client-x", "None"}

\* get_devices(client_id): the devices of the client, all devices when
\* client_id is None
get_devices(client_id) ==
    IF client_id = "None" THEN mock_devices
    ELSE SelectSeq(mock_devices, LAMBDA c : c = client_id)

\* a ticket as create_ticket makes it
OpenTicket == [status |-> "open", plan_proposal |-> [none |-> TRUE]]

\* update_ticket(ticket_id, updates): tkOk = FALSE means the call raises;
\* otherwise a ticket that exists is updated and an unknown ticket_id is
\* ignored
update_ticket(tk, ticket_id, status, proposal) ==
    IF ticket_id \in DOMAIN tk
    THEN [tk EXCEPT ![ticket_id] = [status |-> status, plan_proposal |-> proposal]]
    ELSE tk

\* --------------------------------------------------------- PatchPilotAgent
Max(a, b) == IF a >= b THEN a ELSE b

\* the JSON object of a Bedrock response: any of the two sizes may be absent
PlanData ==
    {[canary_size |-> c, batches |-> b] : c \in {-1, 0, 1, 5}, b \in {<<>>, <<1>>, <<1, -1>>}}
    \cup {[canary_size |-> c] : c \in {-1, 0, 1, 5}}
    \cup {[batches |-> b] : b \in {<<>>, <<1>>, <<1, -1>>}}
    \cup {[notes |-> "plan"]}

\* what bedrock.invoke_model does: raises, returns text without a JSON
\* object, or returns text holding a JSON object
Responses ==
    {[kind |-> "raise"], [kind |-> "text"]} \cup {[kind |-> "json", data |-> d] : d \in PlanData}

\* plan_data.get(key, default)
DictGet(d, key, default) == IF key \in DOMAIN d THEN d[key] ELSE default

\* mutant: the last batch is a third like the others, the remainder is lost
generate_default_planThirds(device_count) ==
    [plan_id |-> now,
     canary_size |-> Max(1, device_count \div 10),
     batches |-> <<device_count \div 3, device_count \div 3, device_count \div 3>>,
     status |-> "proposed", notes |-> "default"]

\* _generate_default_plan: the sizes are computed from the device count
generate_default_plan(device_count) ==
    [plan_id |-> now,
     canary_size |-> Max(1, device_count \div 10),
     batches |-> <<device_count \div 3, device_count \div 3,
                   device_count - (device_count \div 3) * 2>>,
     status |-> "proposed", notes |-> "default"]

\* _parse_plan_response: the sizes of the JSON object are taken as they are
parse_plan_response(response, device_count) ==
    IF response.kind # "json" THEN generate_default_plan(device_count)
    ELSE [plan_id |-> now,
          canary_size |-> DictGet(response.data, "canary_size", 5),
          batches |-> DictGet(response.data, "batches", <<30, 30>>),
          status |-> "proposed", notes |-> "parsed"]

\* _generate_plan: a raising Bedrock call falls back to the default plan
generate_plan(response, device_count) ==
    IF response.kind = "raise" THEN generate_default_plan(device_count)
    ELSE parse_plan_response(response, device_count)

\* the item _store_plan hands to put_item
PlanItem(plan, ticket_id, client_id) ==
    [plan_id |-> plan.plan_id, ticket_id |-> ticket_id, client_id |-> client_id,
     canary_size |-> plan.canary_size, batches |-> plan.batches,
     status |-> plan.status]

\* _store_plan: a raising put_item is logged; the plan_id is returned either
\* way
store_plan(plan, ticket_id, client_id, storeOk) ==
    IF storeOk
    THEN {i \in plans : i.plan_id # plan.plan_id} \cup {PlanItem(plan, ticket_id, client_id)}
    ELSE plans

\* the plan summary _post_plan_to_ticket writes into the ticket
PlanSummary(plan) == [canary_size |-> plan.canary_size, batches |-> plan.batches]

\* PatchPilotAgent.process_webhook: fetch the context, generate the plan,
\* store it, post it to the ticket; tkOk = FALSE: update_ticket raises
process_webhook(ticket_id, client_id, response, storeOk, tkOk) ==
    LET device_count == Len(get_devices(client_id))
        plan == generate_plan(response, device_count)
    IN /\ now < MaxOps
       /\ now' = now + 1
       /\ plans' = store_plan(plan, ticket_id, client_id, storeOk)
       /\ tickets' = IF tkOk
                     THEN update_ticket(tickets, ticket_id, "pending_approval",
                                        PlanSummary(plan))
                     ELSE tickets
       /\ last' = [op |-> "webhook", ticket_id |-> ticket_id, client_id |-> client_id,
                   device_count |-> device_count,
                   env |-> [response |-> response, store_ok |-> storeOk,
                            ticket_ok |-> tkOk],
                   raised |-> ~tkOk,
                   result |-> IF tkOk
                              THEN [kind |-> "webhook", status |-> "success",
                                    plan_id |-> plan.plan_id, ticket_id |-> ticket_id,
                                    plan |-> plan]
                              ELSE NoResult]
       /\ UNCHANGED <<orchestrator, table, installed, verdict, rollbacks, executions>>

\* ----------------------------------------------------------- TicketManager
\* the status values update_execution_status is called with
ExecutionStatuses == {"running", "completed"}

\* "status": f"executing_{status}"
ExecutingStatus(status) ==
    IF status = "running" THEN "executing_running" ELSE "executing_completed"

\* TicketManager.update_execution_status: the except branch logs and
\* re-raises
update_execution_status(ticket_id, status, tkOk) ==
    /\ now < MaxOps
    /\ now' = now + 1
    /\ tickets' = IF tkOk
                  THEN update_ticket(tickets, ticket_id, ExecutingStatus(status),
                                     IF ticket_id \in DOMAIN tickets
                                     THEN tickets[ticket_id].plan_proposal
                                     ELSE [none |-> TRUE])
                  ELSE tickets
    /\ last' = [op |-> "status_update", ticket_id |-> ticket_id, status |-> status,
                env |-> [ticket_ok |-> tkOk], raised |-> ~tkOk,
                result |-> IF tkOk
                           THEN [kind |-> "status_update", status |-> "updated",
                                 ticket_id |-> ticket_id]
                           ELSE NoResult]
    /\ UNCHANGED <<orchestrator, table, installed, verdict, rollbacks, executions, plans>>

\* an agent and a ticket manager over a SuperOps client that holds any of
\* the tickets
InitAgent ==
    /\ orchestrator = "None"
    /\ table = {}
    /\ installed = [d \in Devices |-> {}]
    /\ verdict = [b \in BatchIds |-> "none"]
    /\ rollbacks = [b \in BatchIds |-> 0]
    /\ now = 0
    /\ last = NoCall
    /\ executions = {}
    /\ plans = {}
    /\ tickets \in UNION {[S -> {OpenTicket}] : S \in SUBSET TicketIds}

ProcessWebhook ==
    \E ticket_id \in TicketIds, client_id \in ClientIds, response \in Responses,
       storeOk \in BOOLEAN, tkOk \in BOOLEAN :
        process_webhook(ticket_id, client_id, response, storeOk, tkOk)

UpdateExecutionStatus ==
    \E ticket_id \in TicketIds, status \in ExecutionStatuses, tkOk \in BOOLEAN :
        update_execution_status(ticket_id, status, tkOk)

\* one call of one agent or ticket manager method, over all its inputs
FirstWebhook == now = 0 /\ ProcessWebhook

FirstStatusUpdate == now = 0 /\ UpdateExecutionStatus

NextAgent == FirstWebhook \/ FirstStatusUpdate

SpecAgent == InitAgent /\ [][NextAgent]_vars

\* _generate_plan called on a context of device_count devices, as
\* tests/test_agent.py calls the plan functions on a context of its own
generate_plan_call(device_count, response) ==
    /\ now < MaxOps
    /\ now' = now + 1
    /\ last' = [op |-> "plan", device_count |-> device_count,
                env |-> [response |-> response], raised |-> FALSE,
                result |-> [kind |-> "plan", status |-> "generated",
                            plan |-> generate_plan(response, device_count)]]
    /\ UNCHANGED <<orchestrator, table, installed, verdict, rollbacks,
                   executions, plans, tickets>>

\* len(context['devices']) of such a context
FleetSizes == 0..MaxFleet

GeneratePlan ==
    \E device_count \in FleetSizes, response \in Responses :
        generate_plan_call(device_count, response)

\* one call of _generate_plan, over fleets of every size and every response
FirstGeneratePlan == now = 0 /\ GeneratePlan

SpecPlan == Init /\ [][FirstGeneratePlan]_vars

\* =============================================================== claims
\* the last call was a completed call of the given orchestrator method
Returned(op) == last.op = op /\ ~last.raised

Count(seq, v) == Cardinality({i \in DOMAIN seq : seq[i] = v})

\* the last position of device d in a list that holds it
LastIndex(seq, d) == CHOOSE i \in DOMAIN seq :
    seq[i] = d /\ \A j \in DOMAIN seq : seq[j] = d => j <= i

Distinct(seq) == \A i, j \in DOMAIN seq : seq[i] = seq[j] => i = j

\* C1 - Monotonic gating: a stage after the canary is dispatched only when
\* the health check of the stage before it has returned proceed, and no
\* stage is dispatched after an earlier stage got the verdict rollback.
C1_MonotonicGating ==
    (last.op = "execute" /\ Len(last.sent) > 0 /\ last.batch_id > 0) =>
        /\ verdict[last.batch_id - 1] = "proceed"
        /\ \A i \in BatchIds : i < last.batch_id => verdict[i] # "rollback"

C3_VacuousHealth ==
    (Returned("health") /\ Len(last.device_ids) = 0) =>
        /\ last.result.health_percent.num = 100 * last.result.health_percent.den
        /\ last.result.proceed

\* C4 - Health classification: a device counts as healthy only when its
\* probe returned an instance whose PingStatus is Online; no instance, a
\* raising probe and any other PingStatus count as unhealthy; every device
\* of the stage is probed whatever the earlier probes did, and healthy +
\* unhealthy is the number of devices of the stage.
C4_HealthClassification ==
    Returned("health") =>
        /\ last.probed = last.device_ids
        /\ last.result.healthy = Count(last.env, "Online")
        /\ last.result.unhealthy = Len(last.device_ids) - Count(last.env, "Online")
        /\ last.result.healthy + last.result.unhealthy = Len(last.device_ids)
        /\ \A d \in Range(last.device_ids) :
              (last.result.device_health[d].status = "healthy")
                  <=> (last.env[LastIndex(last.device_ids, d)] = "Online")

C4_Witness ==
    /\ Returned("health")
    /\ Len(last.device_ids) >= 2
    /\ last.env[1] = "Error"
    /\ last.env[2] = "Online"
    /\ last.result.healthy >= 1
    /\ last.result.unhealthy >= 1

\* C5 - Per-device isolation in execute: whichever dispatches fail,
\* execute_canary_batch sends the command to every device of the stage,
\* records failed for exactly the failing devices, and raises only when
\* storing the record fails, never because a dispatch failed.
C5_ExecuteIsolation ==
    last.op = "execute" =>
        /\ Len(last.sent) = Len(last.device_ids)
        /\ \A i \in DOMAIN last.sent :
              last.sent[i] = Command(last.device_ids[i], "Install", last.batch_id)
        /\ last.raised <=> ~last.put_ok
        /\ ~last.raised =>
              /\ last.result.failed = Count(last.env, FALSE)
              /\ \A d \in Range(last.device_ids) :
                    (last.result.device_results[d].status = "failed")
                        <=> ~last.env[LastIndex(last.device_ids, d)]

C5_Witness ==
    /\ Returned("execute")
    /\ Len(last.device_ids) >= 2
    /\ \A i \in DOMAIN last.env : ~last.env[i]
    /\ last.result.failed = Len(last.device_ids)

\* C6 - Outcome accounting: for a stage of distinct devices the result of
\* execute_canary_batch has successful + failed = device_count = number of
\* devices, counts a device successful exactly when its dispatch returned a
\* command id, and holds one device_results entry per device whose status
\* agrees with how the device was counted.
C6_OutcomeAccounting ==
    (Returned("execute") /\ Distinct(last.device_ids)) =>
        /\ last.result.device_count = Len(last.device_ids)
        /\ last.result.successful + last.result.failed = last.result.device_count
        /\ last.result.successful = Count(last.env, TRUE)
        /\ DOMAIN last.result.device_results = Range(last.device_ids)
        /\ Cardinality(DOMAIN last.result.device_results) = last.result.device_count
        /\ \A i \in DOMAIN last.device_ids :
              LET e == last.result.device_results[last.device_ids[i]]
              IN IF last.env[i]
                 THEN e.status = "executing" /\ e.command_id # 0
                 ELSE e.status = "failed" /\ e.command_id = 0

C6_Witness ==
    /\ Returned("execute")
    /\ Distinct(last.device_ids)
    /\ Len(last.device_ids) >= 2
    /\ last.result.successful >= 1
    /\ last.result.failed >= 1

\* C7 - Per-device isolation in rollback: whichever rollback commands fail,
\* rollback_batch sends the command to every device of the stage, raises
\* only when storing the record fails, and reports successful + failed =
\* device_count.
C7_RollbackIsolation ==
    last.op = "rollback" =>
        /\ Len(last.sent) = Len(last.device_ids)
        /\ \A i \in DOMAIN last.sent : last.sent[i].InstanceId = last.device_ids[i]
        /\ last.raised <=> ~last.put_ok
        /\ ~last.raised =>
              /\ last.result.device_count = Len(last.device_ids)
              /\ last.result.successful + last.result.failed = last.result.device_count
              /\ last.result.failed = Count(last.env, FALSE)

C7_Witness ==
    /\ Returned("rollback")
    /\ Len(last.device_ids) >= 2
    /\ ~last.env[1]
    /\ last.env[Len(last.device_ids)]
    /\ last.result.successful >= 1

\* C8 - Repeated rollback keeps the log intact: after n completed
\* rollback_batch calls for a stage the table holds n rollback outcomes of
\* that stage.
C8_RollbackLogKeepsAll ==
    \A b \in BatchIds :
        Cardinality(ItemsOf(table, <<"BATCH", b>>, "ROLLBACK")) = rollbacks[b]

\* C9 - Rollback touches only the triggering stage: a rollback_batch call
\* sends commands only to the devices of its device_ids, leaves every other
\* device as it was, and changes no item of the table except the rollback
\* record of its batch_id.
OtherItems(t, batch_id) ==
    {it \in t : ~(it.pk = <<"BATCH", batch_id>> /\ it.sk = "ROLLBACK")}

C9_RollbackFrame ==
    [][(last'.op = "rollback" /\ now' # now) =>
          /\ \A i \in DOMAIN last'.sent :
                last'.sent[i].InstanceId \in Range(last'.device_ids)
          /\ \A d \in Devices \ Range(last'.device_ids) : installed'[d] = installed[d]
          /\ OtherItems(table', last'.batch_id) = OtherItems(table, last'.batch_id)]_vars

C9_Witness ==
    /\ Returned("rollback")
    /\ last.batch_id > 0
    /\ Len(last.device_ids) > 0
    /\ \E it \in table : it.sk = "EXECUTION" /\ it.pk = <<"BATCH", 0>> /\ it.successful > 0
    /\ \E d \in Devices \ Range(last.device_ids) : 0 \in installed[d]

\* C10 - Rollback reverses the stage: after rollback_batch completes with
\* every command accepted, the patch group of the stage is installed on no
\* device of the stage.
C10_RollbackReverses ==
    (Returned("rollback") /\ Len(last.device_ids) > 0 /\ last.result.failed = 0) =>
        \A d \in Range(last.device_ids) : last.batch_id \notin installed[d]

\* C11 - Idempotent advance: executing a stage a second time, right after a
\* completed execution of the same stage with the same devices, sends no
\* command to a device that already accepted the command of the stage.
C11_IdempotentAdvance ==
    [][(/\ Returned("execute")
        /\ last'.op = "execute" /\ now' # now
        /\ last'.batch_id = last.batch_id
        /\ last'.device_ids = last.device_ids) =>
          \A i \in DOMAIN last'.sent :
              last.batch_id \notin installed[last'.sent[i].InstanceId]]_vars

\* C12 - Exactly-once stage transition: a write to a batch record is
\* conditional on the record not having been written by another invocation;
\* an execute_canary_batch or rollback_batch call that finds its record
\* already stored raises and leaves the table as it was.
WrittenKey(op) == IF op = "execute" THEN "EXECUTION" ELSE "ROLLBACK"

C12_CompareAndSet ==
    [][(/\ last'.op \in {"execute", "rollback"} /\ now' # now
        /\ ItemsOf(table, <<"BATCH", last'.batch_id>>, WrittenKey(last'.op)) # {}) =>
          (last'.raised /\ table' = table)]_vars

\* C13 - Persist before transition: execute_canary_batch returns a result
\* only when the table holds the batch record of this call with the same
\* successful and failed counts; when put_item fails the call raises and
\* returns no result.
C13_PersistBeforeResult ==
    /\ (last.op = "execute" /\ last.result # NoResult) =>
          \E it \in ItemsOf(table, <<"BATCH", last.batch_id>>, "EXECUTION") :
              /\ it.at = now - 1
              /\ it.successful = last.result.successful
              /\ it.failed = last.result.failed
              /\ it.device_results = last.result.device_results
    /\ (last.op = "execute" /\ ~last.put_ok) =>
          (last.raised /\ last.result = NoResult)

C13_Witness ==
    /\ Returned("execute")
    /\ last.result.successful >= 1
    /\ last.result.failed >= 1
    /\ \E it \in table : it.sk = "EXECUTION" /\ it.at = now - 1 /\ it.failed >= 1

\* C14 - Append-only outcome log: an execution record stored by
\* execute_canary_batch stays in the table unchanged through every later
\* operation.
C14_AppendOnlyLog ==
    [][\A it \in table : it.sk = "EXECUTION" => it \in table']_vars

\* C15 - Run independence: the devices of a fleet belong to one run; an
\* execute_canary_batch or rollback_batch call on devices of one run leaves
\* every stored record of a stage of another run in the table unchanged.
RunOf(d) == d % 2

RunsOf(ds) == {RunOf(d) : d \in ds}

C15_RunIndependence ==
    [][(/\ last'.op \in {"execute", "rollback"} /\ now' # now
        /\ Range(last'.device_ids) # {}) =>
          \A it \in table :
              (/\ it.sk \in {"EXECUTION", "ROLLBACK"}
               /\ DOMAIN it.device_results # {}
               /\ RunsOf(DOMAIN it.device_results)
                     \cap RunsOf(Range(last'.device_ids)) = {}) =>
                  it \in table']_vars

\* C16 - Terminal states are absorbing: once every execution of the state
\* machine has ended (SUCCEEDED, FAILED or ABORTED), no handler invocation
\* sends a command to a device, adds or replaces a batch record, or changes
\* an execution or its stored record.
TerminalRun ==
    executions # {} /\ \A e \in executions : e.status \in ClosedStatuses

BatchItems(t) == {it \in t : it.sk \in {"EXECUTION", "ROLLBACK"}}

C16_TerminalAbsorbing ==
    [][(TerminalRun /\ now' # now) =>
          /\ last'.op \in {"execute", "rollback"} => last'.sent = <<>>
          /\ BatchItems(table') = BatchItems(table)
          /\ \A e \in executions : e \in executions'
          /\ \A it \in table : it.sk = "METADATA" => it \in table']_vars

\* C19 - Invalid plans never run: an approval request whose plan has a
\* negative canary_size or a negative batch size is answered with an error,
\* starts no execution and stores no execution record.
InvalidPlan(plan) ==
    /\ HasPlanKeys(plan)
    /\ \/ plan.canary_size < 0
       \/ \E i \in DOMAIN plan.batches : plan.batches[i] < 0

C19_InvalidPlansNeverRun ==
    (last.op = "approve" /\ last.approved /\ InvalidPlan(last.plan)) =>
        /\ last.response.statusCode # 200
        /\ \A e \in executions : e.input.timestamp # now - 1
        /\ \A it \in table : it.sk = "METADATA" => it.at # now - 1

\* C17 - Notifier failures are harmless: when update_ticket raises,
\* update_execution_status and process_webhook still return their result.
C17_NotifierHarmless ==
    (last.op \in {"webhook", "status_update"} /\ ~last.env.ticket_ok) =>
        (~last.raised /\ last.result # NoResult)

\* C18 - No error is swallowed: process_webhook answers status success with
\* a plan_id only when the plan of that plan_id is in the plans table.
C18_NoErrorSwallowed ==
    (Returned("webhook") /\ last.result.status = "success") =>
        \E i \in plans : i.plan_id = last.result.plan_id

\* C20 - Coverage: for a non-empty device population the stage sizes of the
\* plan that process_webhook proposes, the canary and the batches, account
\* for every device exactly once: they are not negative and their sum is
\* the number of devices.
RECURSIVE SumSeq(_)
SumSeq(seq) == IF seq = <<>> THEN 0 ELSE Head(seq) + SumSeq(Tail(seq))

C20_Coverage ==
    (Returned("webhook") /\ last.device_count > 0) =>
        LET plan == last.result.plan
        IN /\ plan.canary_size >= 0
           /\ \A i \in DOMAIN plan.batches : plan.batches[i] >= 0
           /\ plan.canary_size + SumSeq(plan.batches) = last.device_count

\* C21 - Canary bound: for a non-empty device population the canary_size
\* of the plan that process_webhook proposes, parsed or defaulted, is at
\* least 1 and at most the number of devices.
C21_CanaryBound ==
    (Returned("webhook") /\ last.device_count > 0) =>
        /\ last.result.plan.canary_size >= 1
        /\ last.result.plan.canary_size <= last.device_count

\* C24 - Fallback to the default plan: when invoke_model raises or its text
\* holds no JSON object, the plan is the default plan: status proposed,
\* canary_size = max(1, device_count // 10), and three batch sizes, none
\* negative, whose sum is device_count.
NoPlanFromBedrock == last.env.response.kind \in {"raise", "text"}

C24_DefaultPlanFallback ==
    (Returned("plan") /\ NoPlanFromBedrock) =>
        LET plan == last.result.plan
            n == last.device_count
        IN /\ plan.status = "proposed"
           /\ plan.canary_size = (IF n \div 10 >= 1 THEN n \div 10 ELSE 1)
           /\ Len(plan.batches) = 3
           /\ \A i \in DOMAIN plan.batches : plan.batches[i] >= 0
           /\ SumSeq(plan.batches) = n

C24_Witness ==
    /\ Returned("plan")
    /\ last.env.response.kind = "text"
    /\ last.device_count = 20
    /\ last.result.plan.canary_size = 2
    /\ last.result.plan.batches = <<6, 6, 8>>

\* C30 - The plan reaches the ticket: after process_webhook returns status
\* success, the ticket of the webhook's ticket_id exists, has status
\* pending_approval and carries the summary of the plan.
C30_PlanReachesTicket ==
    (Returned("webhook") /\ last.result.status = "success") =>
        /\ last.ticket_id \in DOMAIN tickets
        /\ tickets[last.ticket_id].status = "pending_approval"
        /\ tickets[last.ticket_id].plan_proposal = PlanSummary(last.result.plan)

\* C22 - Execute applies the requested patches: two consecutive
\* execute_canary_batch calls on the same stage and the same devices that
\* differ in patch_ids send different commands.
C22_PatchIdsApplied ==
    [][(/\ last.op = "execute"
        /\ last'.op = "execute" /\ now' # now
        /\ last'.batch_id = last.batch_id
        /\ last'.device_ids = last.device_ids
        /\ Len(last'.device_ids) > 0
        /\ last'.patch_ids # last.patch_ids) =>
          last'.sent # last.sent]_vars

\* C23 - Health Gate is a stateless single pass: a completed
\* check_batch_health call has probed each device of its list once, in
\* order, also after a failing probe; it has sent no command, changed no
\* device and left the table as it was.
C23_HealthSinglePass ==
    [][(last'.op = "health" /\ now' # now /\ ~last'.raised) =>
          /\ last'.probed = last'.device_ids
          /\ last'.sent = <<>>
          /\ installed' = installed
          /\ table' = table]_vars

C23_Witness ==
    /\ Returned("health")
    /\ Len(last.device_ids) >= 2
    /\ last.env[1] = "Error"
    /\ table # {}
    /\ \E d \in Devices : installed[d] # {}

\* an execution started, and an execution record written, by the call that
\* has just returned
StartedByLast == \E e \in executions : e.input.timestamp = now - 1

RecordedByLast == \E it \in table : it.sk = "METADATA" /\ it.at = now - 1

\* C25 as stated - plan_approval_handler starts an execution if and only if
\* the approved flag is true; a request that is not approved starts no
\* execution, writes no execution record and answers status rejected
C25_StartsIffApproved ==
    last.op = "approve" =>
        /\ StartedByLast <=> last.approved
        /\ ~last.approved =>
               /\ ~RecordedByLast
               /\ last.response.status = "rejected"

\* C25 - approval gates execution: plan_approval_handler starts an execution
\* only if the approved flag is true; a request that is not approved starts
\* no execution, writes no execution record and answers 200 with status
\* rejected; an approved request either starts an execution or answers 500,
\* and the answer approved is given only after the execution is started and
\* its record written
C25_ApprovalGates ==
    last.op = "approve" =>
        /\ StartedByLast => last.approved
        /\ ~last.approved =>
               /\ ~StartedByLast
               /\ ~RecordedByLast
               /\ last.response.statusCode = 200
               /\ last.response.status = "rejected"
        /\ (last.approved /\ ~StartedByLast) => last.response.statusCode = 500
        /\ last.response.status = "approved" => (StartedByLast /\ RecordedByLast)

C25_Witness ==
    /\ last.op = "approve"
    /\ last.approved
    /\ last.response.status = "approved"
    /\ StartedByLast
    /\ RecordedByLast

\* C26 - approval answers are truthful: whenever an approval endpoint answers
\* "Plan approved, execution started" for a plan_id, an execution for that
\* plan_id has been started
C26_TruthfulApproval ==
    (/\ last.op \in {"approve", "api_approve"}
     /\ last.response.message = "Plan approved, execution started") =>
        \E e \in executions : e.input.plan_id = last.plan_id

\* C27 - lazy initialisation covers every handler: invoked first in a fresh
\* process, execute_batch_handler finds an orchestrator as the other
\* handlers do, and a handler left without an orchestrator reports an error
\* and sends and probes nothing
C27_LazyInitCoversHandlers ==
    /\ last.op = "execute" => orchestrator = "ready"
    /\ (last.op \in {"health", "rollback"} /\ orchestrator = "None") =>
           (last.raised /\ last.sent = <<>>)
    /\ (last.op = "approve" /\ last.approved /\ orchestrator = "None") =>
           last.response.statusCode = 500

\* C28 - started executions are recorded: every Step Functions execution
\* that start_execution has started has its record in the table, status
\* running, with its plan_id and ticket_id, also when start_execution ended
\* with an error
C28_StartedIsRecorded ==
    \A e \in executions :
        \E it \in table :
            /\ it.sk = "METADATA"
            /\ it.execution_arn = e.execution_arn
            /\ it.status = "running"
            /\ it.plan_id = e.input.plan_id
            /\ it.ticket_id = e.input.ticket_id

\* C29 - running executions are visible: every recorded execution that has
\* not finished is listed under in_progress by GET /api/dashboard/runs
C29_RunningVisible ==
    (last.op = "runs" /\ last.response.statusCode = 200) =>
        \A e \in executions :
            e.status = "RUNNING" =>
                \A it \in table :
                    (it.sk = "METADATA" /\ it.execution_arn = e.execution_arn) =>
                        it \in last.response.in_progress

====
